---- MODULE Spec2Model ----
(***************************************************************************)
(* The controller of cosmic-launcher (src/src/app.rs): the CosmicLauncher  *)
(* state, its update() and dbus_activation() handlers, the requests it     *)
(* sends to the pop-launcher backend and the window commands it returns.   *)
(***************************************************************************)
EXTENDS Integers, Sequences, FiniteSets, TLC

\* ------------------------------------------------------------------ bounds
\* The length of the long result lists, which list.truncate(10) cuts.
MaxUpdate == 11
\* The length of the longest short result list.
SmallLen == 2
\* Longest query text typed or filled in.
MaxText == 1
\* Most options of a context menu.
MaxOptions == 1
\* The rows the user clicks, and the widgets Tab finds, are rows 0..MaxIndex.
MaxIndex == 0
\* Asynchronous commands (find_focused, request_token, launch) running at once.
MaxTasks == 1
\* One step of the clock, in milliseconds.
TickMs == 100
\* The capacity of the channel to the backend (mpsc::Sender is the bounded one).
ChannelCap == 1
\* The bits of the model's usize: narrower than the machine's, and like it
\* wide enough that a wrapped -1 is past the end of every result list.
WordBits == 8

\* --------------------------------------------------------- program constants
\* list.truncate(10)
MaxResults == 10
\* self.last_hide.elapsed().as_millis() > 100
DebounceMs == 100
\* The clock saturates above the debounce time: elapsed() is only ever
\* compared with it, so every larger elapsed time compares alike.
MaxElapsed == DebounceMs + 1

\* ------------------------------------------------------------------ values
\* Option<T>: None is the empty tuple, Some(x) the 1-tuple.
None == <<>>
Some(x) == <<x>>
IsSome(o) == o # <<>>
IsNone(o) == o = <<>>

Min(a, b) == IF a < b THEN a ELSE b

\* A query text is a sequence of characters; character k is the number k.
Texts == { [i \in 1..k |-> i] : k \in 0..MaxText }

\* The windows of a backend list: which positions carry a window marker.
WindowPatterns == { {2, 4, MaxUpdate} }

\* SearchResult: id and the optional window marker (the fields update() reads).
SearchResult(i, W) == [id |-> i, window |-> IF i \in W THEN Some(i) ELSE None]

ResultList(n, W) == [i \in 1..n |-> SearchResult(i, W)]

\* The short lists a Response::Update may carry.
BackendLists == { ResultList(n, W) : n \in 0..SmallLen, W \in WindowPatterns }

\* The long ones, with windows at these positions, at all and at none.
LongLists == { ResultList(MaxUpdate, W) : W \in WindowPatterns \cup {{}, 1..MaxUpdate} }

\* The option lists a Response::Context may carry.
OptionLists == { [i \in 1..k |-> i] : k \in 0..MaxOptions }

\* The pointer positions CursorMoved reports.
Points == { <<1, 1>> }

VARIABLES
    input_value,        \* String
    surface_state,      \* "Hidden" | "WaitingToBeShown" | "Visible"
    launcher_items,     \* Vec<SearchResult>
    tx,                 \* Option<mpsc::Sender>: None or Some("tx")
    menu,               \* Option<(u32, Vec<ContextOption>)>
    cursor_position,    \* Option<Point>
    focused,            \* usize
    last_hide_elapsed,  \* self.last_hide.elapsed().as_millis()
    alt_tab,            \* bool
    queue,              \* VecDeque<Message>
    inflight,           \* requests delivered to the backend, not yet answered
    tasks,              \* asynchronous commands still running
    channel,            \* requests in the channel the backend has not taken yet
    blocked,            \* the handler waits inside blocking_send
    window_open,        \* the layer surface WINDOW_ID exists
    popup_open,         \* the popup MENU_ID exists
    panicked            \* a handler panicked (the process is gone)

vars == <<input_value, surface_state, launcher_items, tx, menu, cursor_position,
          focused, last_hide_elapsed, alt_tab, queue, inflight, tasks,
          channel, blocked, window_open, popup_open, panicked>>

\* The fields a handler reads and writes, as one record, with the log of what
\* the handler did, in order: the messages it dispatched, the requests it
\* sent and the commands it returned.
Self ==
    [input_value |-> input_value, surface_state |-> surface_state,
     launcher_items |-> launcher_items, tx |-> tx, menu |-> menu,
     cursor_position |-> cursor_position, focused |-> focused,
     last_hide_elapsed |-> last_hide_elapsed, alt_tab |-> alt_tab,
     queue |-> queue, inflight |-> inflight, tasks |-> tasks,
     channel |-> channel, blocked |-> blocked,
     log |-> <<>>, panicked |-> FALSE]

\* Message and Request values: a name and a tuple of arguments.
Msg(name, arg) == [name |-> name, arg |-> arg]

\* One entry of the log: kind is "update", "dbus_activation", "request" or "command".
Entry(kind, name, arg) == [kind |-> kind, name |-> name, arg |-> arg]

Logged(s, kind, name, arg) == [s EXCEPT !.log = Append(@, Entry(kind, name, arg))]

\* A Command the handler returns to the runtime.
Command(s, name) == Logged(s, "command", name, <<>>)

\* The requests the backend answers; Close and ServiceIsClosed get no answer.
Answered == {"Search", "Activate", "Complete", "Context", "ActivateContext"}

\* The Search sent on the entry into the current WaitingToBeShown state, and
\* any other Search.
EntrySearch == Msg("Search", <<"entry">>)
OtherSearch == Msg("Search", <<"other">>)

\* What is kept of a request until its answer has been handled: Search,
\* Context with the result id its answer echoes, or Action for the three
\* requests the backend answers alike.
Outstanding(r) ==
    CASE r.name = "Search" -> OtherSearch
      [] r.name = "Context" -> Msg("Context", r.arg)
      [] OTHER -> Msg("Action", <<>>)

\* One request of a kind is kept: a newer one supersedes it. The entry
\* Search is of a kind of its own.
Supersede(held, r) == { h \in held : h.name # r.name \/ h = EntrySearch } \cup {r}

\* tx.blocking_send(r): the request takes a free slot of the channel; with no
\* slot free the thread waits for one, and the request goes in when the
\* backend has taken another out.
blocking_send(s, r) ==
    LET s1 == IF s.channel < ChannelCap
              THEN [s EXCEPT !.channel = @ + 1]
              ELSE [s EXCEPT !.blocked = TRUE]
    IN  IF r.name \in Answered
        THEN [s1 EXCEPT !.inflight = Supersede(@, Outstanding(r))]
        ELSE s1

\* CosmicLauncher::request
request(s, r) ==
    LET s1 == Logged(s, "request", r.name, r.arg)
    IN  IF IsSome(s1.tx) THEN blocking_send(s1, r) ELSE s1

\* CosmicLauncher::show
show(s) ==
    Command([s EXCEPT !.surface_state = "Visible"], "get_layer_surface")

\* hide destroying the surfaces whatever surface_state is.
hide_destroys_always(s) ==
    LET s1 == [s EXCEPT !.input_value = <<>>, !.focused = 0,
                        !.alt_tab = FALSE, !.queue = <<>>]
        s2 == request(s1, Msg("Close", <<>>))
        a == Command(s2, "destroy_layer_surface")
        s3 == IF IsSome(a.menu)
              THEN Command([a EXCEPT !.menu = None], "destroy_popup")
              ELSE a
    IN  [s3 EXCEPT !.surface_state = "Hidden"]

\* CosmicLauncher::hide
hide(s) ==
    LET s1 == [s EXCEPT !.input_value = <<>>, !.focused = 0,
                        !.alt_tab = FALSE, !.queue = <<>>]
        s2 == request(s1, Msg("Close", <<>>))
        s3 == IF s2.surface_state = "Visible"
              THEN LET a == Command(s2, "destroy_layer_surface")
                   IN  IF IsSome(a.menu)
                       THEN Command([a EXCEPT !.menu = None], "destroy_popup")
                       ELSE a
              ELSE s2
    IN  [s3 EXCEPT !.surface_state = "Hidden"]

\* A panic unwinds the handler: nothing after it runs.
Panic(s) == [s EXCEPT !.panicked = TRUE]

\* (focused + 1) % len
NextIndex(f, n) == (f + 1) % n

\* (focused + len - 1) % len
PreviousIndex(f, n) == (f + n - 1) % n

\* CosmicLauncher::focus_next: the remainder by zero panics.
focus_next(s) ==
    IF Len(s.launcher_items) = 0 THEN Panic(s)
    ELSE [s EXCEPT !.focused = NextIndex(@, Len(s.launcher_items))]

\* CosmicLauncher::focus_previous: 0 + 0 - 1 overflows or the remainder by
\* zero panics; both builds panic.
focus_previous(s) ==
    IF Len(s.launcher_items) = 0 THEN Panic(s)
    ELSE [s EXCEPT !.focused = PreviousIndex(@, Len(s.launcher_items))]

\* a.window.is_none() as i32: the key list.sort_by compares.
WindowKey(r) == IF IsNone(r.window) THEN 1 ELSE 0

\* One step of the stable sort: r goes after every element whose key is not
\* greater than its own.
InsertByKey(sorted, r) ==
    LET k == Cardinality({ i \in 1..Len(sorted) : WindowKey(sorted[i]) <= WindowKey(r) })
    IN  SubSeq(sorted, 1, k) \o <<r>> \o SubSeq(sorted, k + 1, Len(sorted))

RECURSIVE SortFrom(_, _, _)
SortFrom(list, i, acc) ==
    IF i > Len(list) THEN acc ELSE SortFrom(list, i + 1, InsertByKey(acc, list[i]))

\* list.sort_by(|a, b| key(a).cmp(&key(b))): a stable sort.
sort_by(list) == SortFrom(list, 1, <<>>)

\* truncate forgotten: the list keeps every element.
truncate_keeps_all(list, n) == list

\* list.truncate(n)
truncate(list, n) == SubSeq(list, 1, Min(n, Len(list)))

\* Message::InputChanged
InputChanged(s, value) ==
    request([s EXCEPT !.input_value = value], Msg("Search", value))

\* String::pop
pop(str) == IF Len(str) = 0 THEN str ELSE SubSeq(str, 1, Len(str) - 1)

\* Message::Backspace searching for the text as it was before the pop.
Backspace_searches_old_text(s) ==
    request([s EXCEPT !.input_value = pop(@)], Msg("Search", s.input_value))

\* Message::Backspace
Backspace(s) ==
    LET s1 == [s EXCEPT !.input_value = pop(@)]
    IN  request(s1, Msg("Search", s1.input_value))

\* Message::TabPress
TabPress(s) ==
    IF ~s.alt_tab
    THEN Command([s EXCEPT !.focused = 0, !.tasks = @ \cup {"find_focused"}], "find_focused")
    ELSE s

\* RESULT_IDS.iter().position(..).unwrap_or_default(): result row i has the
\* widget id i, every other widget (the input field is -1) gives 0.
ResultPosition(id) == IF id \in 0..(MaxResults - 1) THEN id ELSE 0

\* Vec::get: rows are numbered from 0.
get(list, i) == IF i >= 0 /\ i < Len(list) THEN Some(list[i + 1]) ELSE None

\* Message::CompleteFocusedId
CompleteFocusedId(s, id) ==
    LET item == get(s.launcher_items, ResultPosition(id))
    IN  IF IsSome(item) THEN request(s, Msg("Complete", <<item[1].id>>)) ELSE s

\* Message::Activate doing nothing when no result is at the index.
Activate_ignores_missing(s, i) ==
    LET item == get(s.launcher_items, IF IsSome(i) THEN i[1] ELSE s.focused)
    IN  IF IsSome(item) THEN request(s, Msg("Activate", <<item[1].id>>)) ELSE s

\* Message::Activate
Activate(s, i) ==
    LET item == get(s.launcher_items, IF IsSome(i) THEN i[1] ELSE s.focused)
    IN  IF IsSome(item) THEN request(s, Msg("Activate", <<item[1].id>>)) ELSE hide(s)

\* Message::Context
Context(s, i) ==
    IF IsSome(s.menu)
    THEN Command([s EXCEPT !.menu = None], "destroy_popup")
    ELSE LET item == get(s.launcher_items, i)
         IN  IF IsSome(item) THEN request(s, Msg("Context", <<item[1].id>>)) ELSE s

\* Message::CursorMoved
CursorMoved(s, pos) == [s EXCEPT !.cursor_position = Some(pos)]

\* Message::MenuButton dropping the menu without destroying its popup.
MenuButton_forgets_popup(s, i, context) ==
    [request(s, Msg("ActivateContext", <<i, context>>)) EXCEPT !.menu = None]

\* Message::MenuButton
MenuButton(s, i, context) ==
    LET s1 == request(s, Msg("ActivateContext", <<i, context>>))
    IN  IF IsSome(s1.menu)
        THEN Command([s1 EXCEPT !.menu = None], "destroy_popup")
        ELSE s1

\* launcher::Event::Started
Started(s) == [s EXCEPT !.tx = Some("tx")]

\* launcher::Event::ServiceIsClosed
ServiceIsClosed(s) == request(s, Msg("ServiceIsClosed", <<>>))

\* Response::Context storing the menu before it looks at the options.
ResponseContext_stores_empty(s, id, options) ==
    LET s1 == [s EXCEPT !.menu = Some(<<id, options>>)]
    IN  IF Len(options) = 0 \/ IsNone(s1.cursor_position) THEN s1
        ELSE Command(s1, "get_popup")

\* pop_launcher::Response::Context
ResponseContext(s, id, options) ==
    IF Len(options) = 0 THEN s
    ELSE LET s1 == [s EXCEPT !.menu = Some(<<id, options>>)]
         IN  IF IsNone(s1.cursor_position) THEN s1 ELSE Command(s1, "get_popup")

\* pop_launcher::Response::DesktopEntry: exec is the command line the desktop
\* file gives, None when the file, the action or its exec is missing.
ResponseDesktopEntry(s, exec) ==
    IF IsSome(exec)
    THEN Command([s EXCEPT !.tasks = @ \cup {"request_token"}], "request_token")
    ELSE s

\* pop_launcher::Response::Fill
ResponseFill(s, text) ==
    LET s1 == [s EXCEPT !.input_value = text]
    IN  request(s1, Msg("Search", s1.input_value))

\* LayerEvent::Unfocused: last_hide = Instant::now()
LayerUnfocused(s) == hide([s EXCEPT !.last_hide_elapsed = 0])

\* Message::CloseContextMenu
CloseContextMenu(s) ==
    IF IsSome(s.menu)
    THEN Command([s EXCEPT !.menu = None], "destroy_popup")
    ELSE s

\* Message::Hide
Hide(s) ==
    IF IsSome(s.menu)
    THEN Command([s EXCEPT !.menu = None], "destroy_popup")
    ELSE hide(s)

\* Message::KeyboardNav
KeyboardNav(s, e) ==
    CASE e = "FocusNext" -> focus_next(s)
      [] e = "FocusPrevious" -> focus_previous(s)
      [] e = "Unfocus" ->
            Command(request([s EXCEPT !.input_value = <<>>], Msg("Search", <<>>)), "unfocus")
      [] OTHER -> s

\* Message::ActivationToken
ActivationToken(s) ==
    Command([s EXCEPT !.tasks = @ \cup {"launch"}], "launch")

RECURSIVE update(_, _)
RECURSIVE drain(_)

\* Response::Update showing the surface whenever it is not Visible.
ResponseUpdate_shows_unless_visible(s, list) ==
    IF s.alt_tab /\ Len(list) = 0 THEN hide(s)
    ELSE LET s1 == [s EXCEPT !.launcher_items = truncate(sort_by(list), MaxResults)]
             s2 == drain(s1)
         IN  IF s2.panicked THEN s2
             ELSE IF s2.surface_state # "Visible" THEN show(s2)
             ELSE s2

\* Response::Update showing the surface before it drains the queue.
ResponseUpdate_shows_first(s, list) ==
    IF s.alt_tab /\ Len(list) = 0 THEN hide(s)
    ELSE LET s1 == [s EXCEPT !.launcher_items = truncate(sort_by(list), MaxResults)]
             s2 == IF s1.surface_state = "WaitingToBeShown" THEN show(s1) ELSE s1
         IN  drain(s2)

\* Response::Update applying an empty list in alt-tab mode like any other.
ResponseUpdate_applies_empty(s, list) ==
    LET s1 == [s EXCEPT !.launcher_items = truncate(sort_by(list), MaxResults)]
        s2 == drain(s1)
    IN  IF s2.panicked THEN s2
        ELSE IF s2.surface_state = "WaitingToBeShown" THEN show(s2)
        ELSE s2

\* Response::Update cutting the list to 10 before it sorts it.
ResponseUpdate_truncates_first(s, list) ==
    IF s.alt_tab /\ Len(list) = 0 THEN hide(s)
    ELSE LET s1 == [s EXCEPT !.launcher_items = sort_by(truncate(list, MaxResults))]
             s2 == drain(s1)
         IN  IF s2.panicked THEN s2
             ELSE IF s2.surface_state = "WaitingToBeShown" THEN show(s2)
             ELSE s2

\* Response::Update putting the focus back on the first result.
ResponseUpdate_resets_focus(s, list) ==
    IF s.alt_tab /\ Len(list) = 0 THEN hide(s)
    ELSE LET s1 == [s EXCEPT !.launcher_items = truncate(sort_by(list), MaxResults),
                             !.focused = 0]
             s2 == drain(s1)
         IN  IF s2.panicked THEN s2
             ELSE IF s2.surface_state = "WaitingToBeShown" THEN show(s2)
             ELSE s2

\* pop_launcher::Response::Update
ResponseUpdate(s, list) ==
    IF s.alt_tab /\ Len(list) = 0 THEN hide(s)
    ELSE LET s1 == [s EXCEPT !.launcher_items = truncate(sort_by(list), MaxResults)]
             s2 == drain(s1)
         IN  IF s2.panicked THEN s2
             ELSE IF s2.surface_state = "WaitingToBeShown" THEN show(s2)
             ELSE s2

\* Message::AltRelease
AltRelease(s) ==
    IF s.alt_tab THEN update(s, Msg("Activate", <<None>>)) ELSE s

\* CosmicLauncher::update: one entry of the log per message dispatched.
update(s, m) ==
    LET s0 == Logged(s, "update", m.name, <<>>)
    IN  CASE m.name = "InputChanged" -> InputChanged(s0, m.arg[1])
          [] m.name = "Backspace" -> Backspace(s0)
          [] m.name = "TabPress" -> TabPress(s0)
          [] m.name = "CompleteFocusedId" -> CompleteFocusedId(s0, m.arg[1])
          [] m.name = "Activate" -> Activate(s0, m.arg[1])
          [] m.name = "Context" -> Context(s0, m.arg[1])
          [] m.name = "CursorMoved" -> CursorMoved(s0, m.arg[1])
          [] m.name = "MenuButton" -> MenuButton(s0, m.arg[1], m.arg[2])
          [] m.name = "Started" -> Started(s0)
          [] m.name = "ServiceIsClosed" -> ServiceIsClosed(s0)
          [] m.name = "Close" -> hide(s0)
          [] m.name = "ResponseContext" -> ResponseContext(s0, m.arg[1], m.arg[2])
          [] m.name = "DesktopEntry" -> ResponseDesktopEntry(s0, m.arg[1])
          [] m.name = "Update" -> ResponseUpdate(s0, m.arg[1])
          [] m.name = "Fill" -> ResponseFill(s0, m.arg[1])
          [] m.name = "LayerUnfocused" -> LayerUnfocused(s0)
          [] m.name = "CloseContextMenu" -> CloseContextMenu(s0)
          [] m.name = "Hide" -> Hide(s0)
          [] m.name = "KeyboardNav" -> KeyboardNav(s0, m.arg[1])
          [] m.name = "ActivationToken" -> ActivationToken(s0)
          [] m.name = "AltTab" -> focus_next(s0)
          [] m.name = "ShiftAltTab" -> focus_previous(s0)
          [] m.name = "AltRelease" -> AltRelease(s0)
          [] OTHER -> s0

\* while let Some(element) = self.queue.pop_front() { self.update(element) }
drain(s) ==
    IF s.panicked \/ Len(s.queue) = 0 THEN s
    ELSE drain(update([s EXCEPT !.queue = Tail(@)], Head(s.queue)))

\* Activate toggling only a Visible surface.
DbusActivate_toggles_visible_only(s) ==
    IF s.surface_state = "Visible" THEN hide(s)
    ELSE IF s.last_hide_elapsed > DebounceMs
         THEN [request(s, Msg("Search", <<>>)) EXCEPT !.surface_state = "WaitingToBeShown"]
         ELSE s

\* DbusActivationDetails::Activate
DbusActivate(s) ==
    IF s.surface_state # "Hidden" THEN hide(s)
    ELSE IF s.last_hide_elapsed > DebounceMs
         THEN [request(s, Msg("Search", <<>>)) EXCEPT !.surface_state = "WaitingToBeShown"]
         ELSE s

\* A cycle signal queued again in switcher mode.
Cycle_always_queues(s, cmd) ==
    LET s1 == request([s EXCEPT !.alt_tab = TRUE], Msg("Search", <<>>))
    IN  [s1 EXCEPT !.queue = Append(@, Msg(cmd, <<>>))]

\* LauncherCommands::AltTab, LauncherCommands::ShiftAltTab
Cycle(s, cmd) ==
    IF s.alt_tab THEN update(s, Msg(cmd, <<>>))
    ELSE LET s1 == request([s EXCEPT !.alt_tab = TRUE], Msg("Search", <<>>))
         IN  [s1 EXCEPT !.queue = Append(@, Msg(cmd, <<>>))]

\* ActivateAction leaving a Hidden surface Hidden.
DbusActivateAction_stays_hidden(s, action) ==
    IF action \notin {"AltTab", "ShiftAltTab"} THEN s ELSE Cycle(s, action)

\* DbusActivationDetails::ActivateAction: an action that does not parse as a
\* LauncherCommands changes nothing.
DbusActivateAction(s, action) ==
    IF action \notin {"AltTab", "ShiftAltTab"} THEN s
    ELSE Cycle(IF s.surface_state = "Hidden"
               THEN [s EXCEPT !.surface_state = "WaitingToBeShown"]
               ELSE s, action)

\* The handler took s to r. When that is the entry into WaitingToBeShown,
\* the Search it sent is the entry Search; a Search kept from before stays.
Entering(s, r) ==
    IF s.surface_state = "Hidden" /\ r.surface_state = "WaitingToBeShown" /\ IsSome(r.tx)
    THEN [r EXCEPT !.inflight =
            (@ \ {OtherSearch}) \cup {EntrySearch} \cup (s.inflight \cap {OtherSearch})]
    ELSE r

\* CosmicLauncher::dbus_activation
dbus_activation(s, msg) ==
    LET s0 == Logged(s, "dbus_activation", msg.name, <<>>)
    IN  CASE msg.name = "Activate" -> Entering(s, DbusActivate(s0))
          [] msg.name = "ActivateAction" -> Entering(s, DbusActivateAction(s0, msg.arg[1]))
          [] OTHER -> s0

\* ------------------------------------------------------- the windowing layer
\* The runtime executes the commands a handler returned, in order: the popup
\* names the layer surface as its parent and exists only if that one does.
RECURSIVE Surfaces(_, _, _, _)
Surfaces(l, i, w, p) ==
    IF i > Len(l) THEN <<w, p>>
    ELSE IF l[i].kind # "command" THEN Surfaces(l, i + 1, w, p)
    ELSE IF l[i].name = "get_layer_surface" THEN Surfaces(l, i + 1, TRUE, p)
    ELSE IF l[i].name = "destroy_layer_surface" THEN Surfaces(l, i + 1, FALSE, p)
    ELSE IF l[i].name = "get_popup" THEN Surfaces(l, i + 1, w, w)
    ELSE IF l[i].name = "destroy_popup" THEN Surfaces(l, i + 1, w, FALSE)
    ELSE Surfaces(l, i + 1, w, p)

\* Out of WaitingToBeShown no Search is the entry Search any more.
Left(s) ==
    IF s.surface_state # "WaitingToBeShown" /\ EntrySearch \in s.inflight
    THEN Supersede(s.inflight \ {EntrySearch}, OtherSearch)
    ELSE s.inflight

\* The step is within the model's bounds.
Allowed(s) == Cardinality(s.tasks) <= MaxTasks

\* The state after a handler returned s, with c requests left in the channel.
Install(s, c) ==
    /\ Allowed(s)
    /\ input_value' = s.input_value
    /\ surface_state' = s.surface_state
    /\ launcher_items' = s.launcher_items
    /\ tx' = s.tx
    /\ menu' = s.menu
    /\ cursor_position' = s.cursor_position
    /\ focused' = s.focused
    /\ last_hide_elapsed' = s.last_hide_elapsed
    /\ alt_tab' = s.alt_tab
    /\ queue' = s.queue
    /\ inflight' = Left(s)
    /\ tasks' = s.tasks
    /\ channel' = c
    /\ blocked' = s.blocked
    /\ panicked' = s.panicked
    /\ window_open' = Surfaces(s.log, 1, window_open, popup_open)[1]
    /\ popup_open' = Surfaces(s.log, 1, window_open, popup_open)[2]

\* The handler returned s and the backend's task, which runs beside the
\* controller, has taken what the handler sent out of the channel.
Apply(s) == Install(s, 0)

\* The handler returned s and the backend's task has not run.
ApplySlow(s) == Install(s, s.channel)

\* CosmicLauncher::init
Init ==
    /\ input_value = <<>>
    /\ surface_state = "Hidden"
    /\ launcher_items = <<>>
    /\ tx = None
    /\ menu = None
    /\ cursor_position = None
    /\ focused = 0
    /\ last_hide_elapsed = 0
    /\ alt_tab = FALSE
    /\ queue = <<>>
    /\ inflight = {}
    /\ tasks = {}
    /\ channel = 0
    /\ blocked = FALSE
    /\ window_open = FALSE
    /\ popup_open = FALSE
    /\ panicked = FALSE

\* The process runs and its thread is free to dispatch a message; keyboard,
\* pointer and widget events reach it only through its layer surface.
Running == ~panicked /\ ~blocked
OnSurface == Running /\ window_open

\* Rows 0..MaxIndex that are on screen.
Rows == { i \in 0..MaxIndex : i < Len(launcher_items) }

\* ---------------------------------------------------------------- the steps
\* Each step has a guard (...On), the record the handler returns (...Step)
\* and the action that installs it.

\* Time passes.
TickStep == [Self EXCEPT !.last_hide_elapsed = Min(@ + TickMs, MaxElapsed)]
Tick == Running /\ Apply(TickStep)

\* The session's "activate" signal.
SignalActivateStep == dbus_activation(Self, Msg("Activate", <<>>))
SignalActivate == Running /\ Apply(SignalActivateStep)

\* The session's "activate action" signal: cycle, reverse cycle, or a name
\* that is no LauncherCommands.
ActionNames == {"AltTab", "ShiftAltTab", "Unknown"}
SignalActivateActionStep(action) == dbus_activation(Self, Msg("ActivateAction", <<action>>))
SignalActivateAction == Running /\ \E action \in ActionNames : Apply(SignalActivateActionStep(action))

\* text_input on_input / on_paste: the input field is shown outside alt-tab.
TypeTextOn == OnSurface /\ ~alt_tab
TypeTextStep(value) == update(Self, Msg("InputChanged", <<value>>))
TypeText == TypeTextOn /\ \E value \in Texts : Apply(TypeTextStep(value))

\* subscription: Backspace no widget consumed.
KeyBackspaceStep == update(Self, Msg("Backspace", <<>>))
KeyBackspace == OnSurface /\ Apply(KeyBackspaceStep)

\* subscription: Tab.
KeyTabStep == update(Self, Msg("TabPress", <<>>))
KeyTab == OnSurface /\ Apply(KeyTabStep)

\* find_focused() answers with the focused widget: a result row or the input.
FocusFoundOn == Running /\ "find_focused" \in tasks
FocusFoundStep(id) ==
    update([Self EXCEPT !.tasks = @ \ {"find_focused"}], Msg("CompleteFocusedId", <<id>>))
FocusFound == FocusFoundOn /\ \E id \in Rows \cup {-1} : Apply(FocusFoundStep(id))

\* on_submit (Enter), a click on a row, or Control with a digit.
ActivateIndexes == {None} \cup { Some(n) : n \in 0..MaxIndex }
PressActivateStep(i) == update(Self, Msg("Activate", <<i>>))
PressActivate == OnSurface /\ \E i \in ActivateIndexes : Apply(PressActivateStep(i))

\* on_right_release on a row: the pointer has moved onto that row.
RightClickOn == OnSurface /\ IsSome(cursor_position)
RightClickStep(i) == update(Self, Msg("Context", <<i>>))
RightClick == RightClickOn /\ \E i \in Rows : Apply(RightClickStep(i))

\* subscription: the pointer moved.
MovePointerStep(pos) == update(Self, Msg("CursorMoved", <<pos>>))
MovePointer == OnSurface /\ \E pos \in Points : Apply(MovePointerStep(pos))

\* A press on an option of the context menu, which view_window draws from menu.
PressMenuButtonOn == Running /\ popup_open /\ IsSome(menu)
MenuOptions == IF IsSome(menu) THEN 1..Len(menu[1][2]) ELSE {}
PressMenuButtonStep(k) == update(Self, Msg("MenuButton", <<menu[1][1], menu[1][2][k]>>))
PressMenuButton == PressMenuButtonOn /\ \E k \in MenuOptions : Apply(PressMenuButtonStep(k))

\* A release on the window while view_window wraps it in the closing mouse_area.
ClickOutsideMenuOn == OnSurface /\ IsSome(menu)
ClickOutsideMenuStep == update(Self, Msg("CloseContextMenu", <<>>))
ClickOutsideMenu == ClickOutsideMenuOn /\ Apply(ClickOutsideMenuStep)

\* subscription: Escape.
KeyEscapeStep == update(Self, Msg("Hide", <<>>))
KeyEscape == OnSurface /\ Apply(KeyEscapeStep)

\* subscription: arrows, Control with n, j, p, k; keyboard_nav's own messages.
NavMessages == {"FocusNext", "FocusPrevious", "Unfocus", "Escape"}
KeyNavStep(e) == update(Self, Msg("KeyboardNav", <<e>>))
KeyNav == OnSurface /\ \E e \in NavMessages : Apply(KeyNavStep(e))

\* subscription: Alt or Super released.
KeyAltReleaseStep == update(Self, Msg("AltRelease", <<>>))
KeyAltRelease == OnSurface /\ Apply(KeyAltReleaseStep)

\* subscription: a LayerEvent of the layer surface.
LayerEvents == {"LayerFocused", "LayerDone", "LayerUnfocused"}
LayerEventStep(e) == update(Self, Msg(e, <<>>))
LayerEvent == OnSurface /\ \E e \in LayerEvents : Apply(LayerEventStep(e))

\* The digits (0..10) of the hotkey table.
Digits == 0..9

\* A character key that is no digit and none of p, k, n, j.
NoDigit == 10
ControlKeys == Digits \cup {NoDigit}

\* ((n + 10) % 10) - 1, before it is stored in a usize.
ControlIndex(n) == ((n + 10) % 10) - 1

\* The usize a subtraction leaves in a build without overflow checks.
Wrapped(i) == i % (2 ^ WordBits)

\* subscription: Control with a character key. The table of the ten digits
\* is collected whole before the key is looked up; a build with overflow
\* checks panics on an entry below zero, a build without them wraps it. A
\* character that is no digit finds no entry and sends no message.
KeyControlCharOn(c, checked) ==
    OnSurface /\ (c \in Digits \/ (checked /\ \E n \in Digits : ControlIndex(n) < 0))
KeyControlCharStep(c, checked) ==
    IF checked /\ \E n \in Digits : ControlIndex(n) < 0
    THEN Panic(Logged(Self, "subscription", "KeyPressed", <<>>))
    ELSE update(Self, Msg("Activate", <<Some(Wrapped(ControlIndex(c)))>>))
KeyControlChar ==
    \E c \in ControlKeys, checked \in BOOLEAN :
        KeyControlCharOn(c, checked) /\ Apply(KeyControlCharStep(c, checked))

\* launcher::Event::Started: the backend service is up.
BackendStartedOn == Running /\ IsNone(tx)
BackendStartedStep == update(Self, Msg("Started", <<>>))
BackendStarted == BackendStartedOn /\ Apply(BackendStartedStep)

\* launcher::Event::ServiceIsClosed
BackendClosedOn == Running /\ IsSome(tx)
BackendClosedStep == update(Self, Msg("ServiceIsClosed", <<>>))
BackendClosed == BackendClosedOn /\ Apply(BackendClosedStep)

\* What the backend answers a request with.
Answers(r) ==
    CASE r.name = "Search" -> { Msg("Update", <<list>>) : list \in BackendLists }
      [] r.name = "Action" ->
            {Msg("Close", <<>>)} \cup { Msg("DesktopEntry", <<e>>) : e \in {None, Some(0)} }
            \cup { Msg("Fill", <<text>>) : text \in Texts }
      [] r.name = "Context" ->
            { Msg("ResponseContext", <<r.arg[1], options>>) : options \in OptionLists }
      [] OTHER -> {}

\* launcher::Event::Response: the backend answers an outstanding request.
BackendRespondsStep(r, m) == update([Self EXCEPT !.inflight = @ \ {r}], m)
BackendResponds ==
    Running /\ \E r \in inflight : \E m \in Answers(r) : Apply(BackendRespondsStep(r, m))

\* The backend lets a request go unanswered.
BackendDropsStep(r) == [Self EXCEPT !.inflight = @ \ {r}]
BackendDrops == Running /\ \E r \in inflight : Apply(BackendDropsStep(r))

\* request_token() answers: Message::ActivationToken.
TokenArrivesOn == Running /\ "request_token" \in tasks
TokenArrivesStep ==
    update([Self EXCEPT !.tasks = @ \ {"request_token"}], Msg("ActivationToken", <<>>))
TokenArrives == TokenArrivesOn /\ Apply(TokenArrivesStep)

\* launch() returned: Command::perform maps it to Message::Hide.
LaunchDoneOn == Running /\ "launch" \in tasks
LaunchDoneStep == update([Self EXCEPT !.tasks = @ \ {"launch"}], Msg("Hide", <<>>))
LaunchDone == LaunchDoneOn /\ Apply(LaunchDoneStep)

Next ==
    \/ Tick
    \/ SignalActivate
    \/ SignalActivateAction
    \/ TypeText
    \/ KeyBackspace
    \/ KeyTab
    \/ FocusFound
    \/ PressActivate
    \/ RightClick
    \/ MovePointer
    \/ PressMenuButton
    \/ ClickOutsideMenu
    \/ KeyEscape
    \/ KeyNav
    \/ KeyAltRelease
    \/ LayerEvent
    \/ BackendStarted
    \/ BackendClosed
    \/ BackendResponds
    \/ BackendDrops
    \/ TokenArrives
    \/ LaunchDone

Spec == Init /\ [][Next]_vars

\* Every step the controller can take from the current state satisfies P:
\* the steps are those of Next, each within the model's bounds.
EveryStep(P(_)) ==
    LET Q(r) == Allowed(r) => P(r)
    IN  /\ Running =>
            /\ Q(SignalActivateStep)
            /\ \A action \in ActionNames : Q(SignalActivateActionStep(action))
            /\ \A r \in inflight : \A m \in Answers(r) : Q(BackendRespondsStep(r, m))
        /\ OnSurface =>
            /\ Q(KeyBackspaceStep)
            /\ Q(KeyTabStep)
            /\ \A i \in ActivateIndexes : Q(PressActivateStep(i))
            /\ \A pos \in Points : Q(MovePointerStep(pos))
            /\ Q(KeyEscapeStep)
            /\ \A e \in NavMessages : Q(KeyNavStep(e))
            /\ Q(KeyAltReleaseStep)
            /\ \A e \in LayerEvents : Q(LayerEventStep(e))
        /\ TypeTextOn => \A value \in Texts : Q(TypeTextStep(value))
        /\ RightClickOn => \A i \in Rows : Q(RightClickStep(i))
        /\ FocusFoundOn => \A id \in Rows \cup {-1} : Q(FocusFoundStep(id))
        /\ PressMenuButtonOn => \A k \in MenuOptions : Q(PressMenuButtonStep(k))
        /\ ClickOutsideMenuOn => Q(ClickOutsideMenuStep)
        /\ BackendStartedOn => Q(BackendStartedStep)
        /\ BackendClosedOn => Q(BackendClosedStep)
        /\ TokenArrivesOn => Q(TokenArrivesStep)
        /\ LaunchDoneOn => Q(LaunchDoneStep)

\* The backend answers a Search with a long list.
LongUpdateStep(r, list) == update([Self EXCEPT !.inflight = @ \ {r}], Msg("Update", <<list>>))
BackendRespondsLong ==
    Running /\ \E r \in inflight : r.name = "Search" /\ \E list \in LongLists : Apply(LongUpdateStep(r, list))

\* The launcher with a backend that has long result lists too, and a user who
\* opens it, cycles, types, moves the focus and closes it.
NextLong ==
    \/ Tick
    \/ SignalActivate
    \/ SignalActivateAction
    \/ TypeText
    \/ KeyBackspace
    \/ PressActivate
    \/ KeyEscape
    \/ KeyNav
    \/ KeyAltRelease
    \/ LayerEvent
    \/ BackendStarted
    \/ BackendResponds
    \/ BackendRespondsLong
    \/ BackendDrops

SpecLong == Init /\ [][NextLong]_vars

\* Some step the controller can take from the current state satisfies P.
SomeStep(P(_)) == ~EveryStep(LAMBDA r : ~P(r))

\* The launcher with a user who opens it, closes it and presses Control with
\* character keys.
NextKeys ==
    \/ Tick
    \/ SignalActivate
    \/ SignalActivateAction
    \/ KeyControlChar
    \/ KeyEscape
    \/ BackendStarted
    \/ BackendResponds
    \/ BackendDrops

SpecKeys == Init /\ [][NextKeys]_vars

\* ------------------------------------------------ a backend that falls behind
\* The same handlers, with a backend task that takes the requests out of the
\* channel in steps of its own.
SlowBackendStarted == BackendStartedOn /\ ApplySlow(BackendStartedStep)
SlowSignalActivate == Running /\ ApplySlow(SignalActivateStep)
SlowSignalActivateAction ==
    Running /\ \E action \in ActionNames : ApplySlow(SignalActivateActionStep(action))
SlowTypeText == TypeTextOn /\ \E value \in Texts : ApplySlow(TypeTextStep(value))
SlowKeyBackspace == OnSurface /\ ApplySlow(KeyBackspaceStep)
SlowKeyEscape == OnSurface /\ ApplySlow(KeyEscapeStep)
SlowLayerEvent == OnSurface /\ \E e \in LayerEvents : ApplySlow(LayerEventStep(e))
SlowTick == ~panicked /\ ApplySlow(TickStep)

\* The backend answers once it has taken every request.
SlowBackendResponds ==
    /\ Running /\ channel = 0
    /\ \E r \in inflight : \E m \in Answers(r) : ApplySlow(BackendRespondsStep(r, m))

\* The backend's task takes a request out of the channel: a waiting send puts
\* its request into the freed slot and returns.
BackendReceives ==
    /\ ~panicked /\ channel > 0
    /\ channel' = IF blocked THEN channel ELSE channel - 1
    /\ blocked' = FALSE
    /\ UNCHANGED <<input_value, surface_state, launcher_items, tx, menu,
                   cursor_position, focused, last_hide_elapsed, alt_tab, queue,
                   inflight, tasks, window_open, popup_open, panicked>>

NextChannel ==
    \/ SlowBackendStarted
    \/ SlowSignalActivate
    \/ SlowSignalActivateAction
    \/ SlowTypeText
    \/ SlowKeyBackspace
    \/ SlowKeyEscape
    \/ SlowLayerEvent
    \/ SlowTick
    \/ SlowBackendResponds
    \/ BackendReceives

SpecChannel == Init /\ [][NextChannel]_vars

\* ------------------------------------------------------------ the claims
\* What a step did, read from its log.
Issued(r, c) == \E i \in DOMAIN r.log : r.log[i].kind = "command" /\ r.log[i].name = c
Sent(r, n) == \E i \in DOMAIN r.log : r.log[i].kind = "request" /\ r.log[i].name = n
Handles(r, n) == r.log[1].kind = "update" /\ r.log[1].name = n

\* hide() is the one place that sends Request::Close, and always sends it.
HideRan(r) == Sent(r, "Close")

C1Reset(r) ==
    HideRan(r) =>
        /\ r.input_value = <<>>
        /\ r.focused = 0
        /\ ~r.alt_tab
        /\ r.queue = <<>>
        /\ IsNone(r.menu)
        /\ r.surface_state = "Hidden"

\* C1: whatever the state before, a step in which hide() ran ends with the
\* input empty, focus 0, no switcher mode, an empty queue, no context menu
\* and the surface Hidden.
C1_HideResetsFully == EveryStep(C1Reset)

\* C2: while the surface is Hidden the input is empty, the focus is 0, the
\* switcher mode is off and the queue is empty.
C2_HiddenIsReset ==
    surface_state = "Hidden" =>
        input_value = <<>> /\ focused = 0 /\ ~alt_tab /\ queue = <<>>

\* C3: whenever there are results, focused is the index of one of them.
C3_FocusedIsValid ==
    Len(launcher_items) > 0 => (0 <= focused /\ focused < Len(launcher_items))

\* C4: no sequence of messages makes a handler panic: focus_next and
\* focus_previous are never evaluated over an empty result list.
C4_NeverPanics == ~panicked

\* C5: there are never more than 10 results, and no result without a window
\* stands before one with a window.
C5_TruncatedAndPartitioned ==
    /\ Len(launcher_items) <= MaxResults
    /\ \A i, j \in DOMAIN launcher_items :
          (i < j /\ IsSome(launcher_items[j].window)) => IsSome(launcher_items[i].window)

\* A long list was cut to 10: its last element, a window, was sorted to the
\* front and results without a window follow.
C5_Witness ==
    /\ Len(launcher_items) = MaxResults
    /\ \E i \in DOMAIN launcher_items : launcher_items[i].id = MaxUpdate
    /\ \E i \in DOMAIN launcher_items : IsNone(launcher_items[i].window)

\* C6: the context menu is present exactly when the popup surface exists.
C6_MenuIffPopup == IsSome(menu) <=> popup_open

C7Gated(r) ==
    Issued(r, "get_layer_surface") =>
        /\ Handles(r, "Update")
        /\ surface_state = "WaitingToBeShown"
        /\ r.surface_state = "Visible"

\* C7: get_layer_surface is returned only by a step that applies an Update
\* while the surface is WaitingToBeShown: never while Hidden, never before the
\* first Update applied after WaitingToBeShown was entered.
C7_ShowGated == EveryStep(C7Gated)

C7Shows(r) == Issued(r, "get_layer_surface") /\ Handles(r, "Update")

\* An Update is about to show the surface.
C7_Witness == surface_state = "WaitingToBeShown" /\ SomeStep(C7Shows)

\* The backend's answer to the Search r, a list.
UpdateStep(r, list) == BackendRespondsStep(r, Msg("Update", <<list>>))

IsUpdateEntry(e) == e.kind = "update"

\* The focus after the cycle messages of q, in order, over n results.
RECURSIVE Replay(_, _, _)
Replay(f, q, n) ==
    IF Len(q) = 0 THEN f
    ELSE Replay(IF Head(q).name = "AltTab" THEN (f + 1) % n ELSE (f + n - 1) % n, Tail(q), n)

\* The step applies an Update: it does not take the branch that hides.
AppliesUpdate(r) ==
    /\ Handles(r, "Update")
    /\ ~(Len(r.log) >= 2 /\ r.log[2].kind = "request" /\ r.log[2].name = "Close")

C8Order(r) ==
    AppliesUpdate(r) =>
        LET d == SelectSeq(r.log, IsUpdateEntry)
        IN  /\ ~r.panicked
            /\ Len(d) = 1 + Len(queue)
            /\ \A k \in 1..Len(queue) : d[k + 1].name = queue[k].name
            /\ r.queue = <<>>
            /\ r.focused = Replay(focused, queue, Len(r.launcher_items))
            /\ \A i \in DOMAIN r.log :
                  (r.log[i].kind = "command" /\ r.log[i].name = "get_layer_surface")
                      => i = Len(r.log)
            /\ surface_state = "WaitingToBeShown" => Issued(r, "get_layer_surface")

\* C8: a step that applies an Update dispatches the queued messages first
\* in first out, each over the new results, empties the queue, and returns
\* get_layer_surface after all of them.
C8_DrainOrder ==
    Running =>
        \A r \in inflight : \A list \in BackendLists :
            r.name = "Search" => C8Order(UpdateStep(r, list))

C8Drains(r) ==
    AppliesUpdate(r) /\ Len(queue) > 0 /\ r.focused # focused /\ Issued(r, "get_layer_surface")

\* An Update is about to drain a queued cycle message and show the surface.
C8_Witness == SomeStep(C8Drains)

C9Recorded(r) ==
    (surface_state # "Hidden" /\ r.surface_state = "Hidden") => r.last_hide_elapsed = 0

\* C9: every step into Hidden records the time, and an activate signal that
\* comes while Hidden less than 100 ms after the recorded time leaves the
\* surface Hidden and sends no Search.
C9_Debounce ==
    /\ EveryStep(C9Recorded)
    /\ (Running /\ surface_state = "Hidden" /\ last_hide_elapsed < DebounceMs) =>
          /\ SignalActivateStep.surface_state = "Hidden"
          /\ ~Sent(SignalActivateStep, "Search")

RECURSIVE FocusNextTimes(_, _)
FocusNextTimes(s, k) == IF k = 0 THEN s ELSE FocusNextTimes(focus_next(s), k - 1)

\* C10: over n > 0 results, n times focus_next brings the focus back, and
\* focus_previous undoes focus_next and the reverse.
C10_FocusWraps ==
    Len(launcher_items) > 0 =>
        /\ FocusNextTimes(Self, Len(launcher_items)).focused = focused
        /\ focus_previous(focus_next(Self)).focused = focused
        /\ focus_next(focus_previous(Self)).focused = focused

\* The requests of one name a step sent, in order.
RequestsNamed(r, n) ==
    LET IsNamed(e) == e.kind = "request" /\ e.name = n
    IN  SelectSeq(r.log, IsNamed)

\* The step returned no command at all.
NoCommand(r) == \A k \in DOMAIN r.log : r.log[k].kind # "command"

\* The index Message::Activate(i) resolves to.
ActivateTarget(i) == IF IsSome(i) THEN i[1] ELSE focused

C11Activates(i) ==
    LET r == PressActivateStep(i)
        n == ActivateTarget(i)
    IN  IF n < Len(launcher_items)
        THEN /\ IsSome(tx)
             /\ RequestsNamed(r, "Activate") = <<Entry("request", "Activate", <<launcher_items[n + 1].id>>)>>
             /\ r.surface_state = surface_state
             /\ ~HideRan(r)
             /\ NoCommand(r)
        ELSE /\ RequestsNamed(r, "Activate") = <<>>
             /\ HideRan(r)
             /\ r.surface_state = "Hidden"
             /\ r.input_value = <<>> /\ r.focused = 0 /\ ~r.alt_tab /\ r.queue = <<>>
             /\ Issued(r, "destroy_layer_surface") <=> surface_state = "Visible"

\* C11: Activate(N), N defaulting to focused, sends exactly one
\* Request::Activate with the id of the result at N and leaves surface_state
\* alone when N is an index of the results; otherwise it sends no Activate
\* and runs hide.
C11_ActivateOrHide == Running => \A i \in ActivateIndexes : C11Activates(i)

\* The window is up with a focus past the end of the results: Enter hides, a
\* click on row 0 activates it.
C11_Witness ==
    /\ OnSurface /\ Len(launcher_items) > 0 /\ focused >= Len(launcher_items)
    /\ HideRan(PressActivateStep(None))
    /\ Sent(PressActivateStep(Some(0)), "Activate")

\* The cycle signals.
CycleNames == {"AltTab", "ShiftAltTab"}

\* The step dispatched a queued or immediate cycle message.
DispatchesCycle(r) ==
    \E k \in DOMAIN r.log : r.log[k].kind = "update" /\ r.log[k].name \in CycleNames

\* A first cycle signal: switcher mode on, Search(""), one message queued,
\* the focus where it was.
C12First ==
    (Running /\ ~alt_tab) =>
        \A c \in CycleNames :
            LET r == SignalActivateActionStep(c)
            IN  /\ ~r.panicked
                /\ r.alt_tab
                /\ RequestsNamed(r, "Search") = <<Entry("request", "Search", <<>>)>>
                /\ r.queue = Append(queue, Msg(c, <<>>))
                /\ r.focused = focused
                /\ ~DispatchesCycle(r)

C12Queued(r) ==
    queue # <<>> =>
        /\ AppliesUpdate(r) =>
              /\ ~r.panicked
              /\ r.surface_state = "Visible"
              /\ Len(queue) = 1
              /\ r.focused = Replay(focused, queue, Len(r.launcher_items))
        /\ ~AppliesUpdate(r) =>
              \/ r.panicked
              \/ r.queue = queue
              \/ (r.queue = <<>> /\ HideRan(r) /\ ~DispatchesCycle(r))

\* The queued move is made by the next applied Update and by no other step.
C12Deferred == EveryStep(C12Queued)

\* A cycle signal in switcher mode moves the focus at once, queues nothing.
C12Repeated ==
    (Running /\ alt_tab) =>
        \A c \in CycleNames :
            LET r == SignalActivateActionStep(c)
                n == Len(launcher_items)
            IN  /\ ~r.panicked
                /\ r.queue = queue
                /\ r.focused = IF c = "AltTab" THEN NextIndex(focused, n)
                                                ELSE PreviousIndex(focused, n)

\* The modifier released: in switcher mode Request::Activate for the focused
\* result (where there is one), otherwise nothing at all.
C12Release ==
    Running =>
        LET r == KeyAltReleaseStep
        IN  IF alt_tab
            THEN focused < Len(launcher_items) =>
                    RequestsNamed(r, "Activate")
                        = <<Entry("request", "Activate", <<launcher_items[focused + 1].id>>)>>
            ELSE /\ Len(r.log) = 1
                 /\ [r EXCEPT !.log = <<>>] = Self

\* C12: a first cycle signal turns switcher mode on, sends Search("") and
\* queues one cycle message without moving the focus; the queued move is made
\* when the next Update is applied, which leaves the surface Visible; a cycle
\* signal in switcher mode moves the focus at once and queues nothing; the
\* modifier's release activates the focused result in switcher mode and does
\* nothing outside it.
C12_SwitcherCycling == C12First /\ C12Deferred /\ C12Repeated /\ C12Release

\* C13: the controller is never inside a send waiting for channel capacity:
\* a request that finds the channel full is dropped and the handler returns.
C13_NeverStalls == ~blocked

\* The backend's answer to a Context request, with no options.
EmptyContextStep(r) == BackendRespondsStep(r, Msg("ResponseContext", <<r.arg[1], <<>>>>))

\* C14: a Context response with no options returns no command and leaves
\* every field of the controller as it was, the menu included.
C14_EmptyContextNoOp ==
    Running =>
        \A r \in inflight :
            r.name = "Context" =>
                LET s == EmptyContextStep(r)
                IN  /\ NoCommand(s)
                    /\ Len(s.log) = 1
                    /\ s.menu = menu
                    /\ [s EXCEPT !.log = <<>>, !.inflight = inflight] = Self

\* A Context request is outstanding, no menu is open and the pointer's
\* position is known: options would open the popup.
C14_Witness ==
    /\ OnSurface /\ IsNone(menu) /\ IsSome(cursor_position)
    /\ \E r \in inflight : r.name = "Context" /\ IsNone(EmptyContextStep(r).menu)

\* C15: the Hide message handled while the surface is Visible ends Hidden in
\* that step, with Request::Close, destroy_layer_surface and, when a context
\* menu is open, destroy_popup.
C15_HideFromVisible ==
    (Running /\ surface_state = "Visible") =>
        LET r == KeyEscapeStep
        IN  /\ r.surface_state = "Hidden"
            /\ Sent(r, "Close")
            /\ Issued(r, "destroy_layer_surface")
            /\ IsSome(menu) => Issued(r, "destroy_popup")

\* C16: an activate signal while Hidden, 100 ms or more after the last hide
\* (exactly 100 ms included), moves to WaitingToBeShown, sends Search("") and
\* returns no get_layer_surface.
C16_ActivateAfterDebounce ==
    (Running /\ surface_state = "Hidden" /\ last_hide_elapsed >= DebounceMs) =>
        LET r == SignalActivateStep
        IN  /\ r.surface_state = "WaitingToBeShown"
            /\ RequestsNamed(r, "Search") = <<Entry("request", "Search", <<>>)>>
            /\ ~Issued(r, "get_layer_surface")

\* C17: an activate signal while Visible or WaitingToBeShown runs hide and
\* ends Hidden; destroy_layer_surface is returned exactly when the surface
\* was Visible, and no Search is sent.
C17_Toggle ==
    (Running /\ surface_state # "Hidden") =>
        LET r == SignalActivateStep
        IN  /\ HideRan(r)
            /\ r.surface_state = "Hidden"
            /\ r.input_value = <<>> /\ r.focused = 0 /\ ~r.alt_tab /\ r.queue = <<>>
            /\ Issued(r, "destroy_layer_surface") <=> surface_state = "Visible"
            /\ RequestsNamed(r, "Search") = <<>>
            /\ ~Issued(r, "get_layer_surface")

\* The signal can come while the launcher waits for its first results, long
\* enough after the last hide for a Hidden launcher to open.
C17_Witness ==
    /\ Running /\ surface_state = "WaitingToBeShown" /\ last_hide_elapsed > DebounceMs
    /\ HideRan(SignalActivateStep) /\ ~Issued(SignalActivateStep, "destroy_layer_surface")

\* The backend's answer to a Search, with no results.
EmptyUpdateStep(r) == BackendRespondsStep(r, Msg("Update", <<<<>>>>))

\* C18: an Update with no results in switcher mode runs hide and ends
\* Hidden whatever the surface was, the queue dropped with none of its
\* messages dispatched, and returns no get_layer_surface.
C18_EmptyUpdateHides ==
    (Running /\ alt_tab) =>
        \A r \in inflight :
            r.name = "Search" =>
                LET s == EmptyUpdateStep(r)
                IN  /\ ~s.panicked
                    /\ HideRan(s)
                    /\ s.surface_state = "Hidden"
                    /\ s.input_value = <<>> /\ s.focused = 0 /\ ~s.alt_tab
                    /\ s.queue = <<>>
                    /\ ~DispatchesCycle(s)
                    /\ s.launcher_items = launcher_items
                    /\ ~Issued(s, "get_layer_surface")
                    /\ Issued(s, "destroy_layer_surface") <=> surface_state = "Visible"

\* The first cycle signal's Search is outstanding: its message waits in the
\* queue and the surface waits to be shown.
C18_Witness ==
    /\ Running /\ alt_tab /\ queue # <<>> /\ surface_state = "WaitingToBeShown"
    /\ \E r \in inflight : r.name = "Search" /\ HideRan(EmptyUpdateStep(r))

\* C19: once an AltRelease has been handled the switcher mode is off.
C19_ReleaseClearsSwitcher == OnSurface => ~KeyAltReleaseStep.alt_tab

C20Fresh(r) ==
    (surface_state = "WaitingToBeShown" /\ r.surface_state = "Visible") =>
        /\ EntrySearch \in inflight
        /\ EntrySearch \notin r.inflight

\* C20: the step from WaitingToBeShown to Visible handles the answer to the
\* Search sent on the entry into that WaitingToBeShown state, never the
\* answer to a Search sent before.
C20_FreshResults == EveryStep(C20Fresh)

\* The step set the query text to text and sent one Search, for that text.
SetsQuery(r, text) ==
    /\ r.input_value = text
    /\ RequestsNamed(r, "Search") = <<Entry("request", "Search", r.input_value)>>

\* The text without its last character; the empty text stays empty.
WithoutLast(text) == [k \in 1..(IF Len(text) = 0 THEN 0 ELSE Len(text) - 1) |-> text[k]]

\* C21: InputChanged, Backspace, a Fill response and keyboard-nav Unfocus set
\* input_value to the new text and send exactly one Search carrying
\* input_value as it is after the step; Backspace drops the last character
\* and leaves an empty text empty.
C21_QueryTextSearches ==
    Running =>
        /\ \A value \in Texts : SetsQuery(TypeTextStep(value), value)
        /\ SetsQuery(KeyBackspaceStep, WithoutLast(input_value))
        /\ SetsQuery(KeyNavStep("Unfocus"), <<>>)
        /\ \A r \in inflight : \A text \in Texts :
              r.name = "Action" => SetsQuery(BackendRespondsStep(r, Msg("Fill", <<text>>)), text)

\* The input field holds text and an action's answer is outstanding.
C21_Witness ==
    /\ TypeTextOn /\ Len(input_value) > 0
    /\ \E r \in inflight : r.name = "Action"
    /\ KeyBackspaceStep.input_value # input_value

\* The launcher is invoked only by the step that handles ActivationToken.
C22Launches(r) == Issued(r, "launch") => Handles(r, "ActivationToken")

\* A DesktopEntry without a command line: no token request, nothing changed.
C22Unresolved ==
    Running =>
        \A r \in inflight :
            r.name = "Action" =>
                LET s == BackendRespondsStep(r, Msg("DesktopEntry", <<None>>))
                IN  /\ NoCommand(s)
                    /\ [s EXCEPT !.log = <<>>, !.inflight = inflight] = Self

\* The Hide that the finished launch sends ends Hidden.
C22EndsHidden == LaunchDoneOn => LaunchDoneStep.surface_state = "Hidden"

\* C22: the launcher is invoked only once the activation token has arrived;
\* a DesktopEntry whose command line cannot be resolved requests no token and
\* changes nothing; and the Hide sent when the launch is done brings the
\* surface to Hidden whatever the state then is, context menu open or not.
C22_LaunchEndsHidden == EveryStep(C22Launches) /\ C22Unresolved /\ C22EndsHidden

\* C23: Control with the digit d sends Activate(Some((d - 1) mod 10)), so
\* Control+1..9 activate rows 0..8 and Control+0 row 9, and no
\* control-modified character key makes the mapping underflow, in either
\* build.
C23_ControlDigit ==
    OnSurface =>
        /\ \A c \in ControlKeys : ~KeyControlCharStep(c, TRUE).panicked
        /\ \A d \in Digits, checked \in BOOLEAN :
              KeyControlCharStep(d, checked)
                  = update(Self, Msg("Activate", <<Some((d + 9) % 10)>>))

\* The results with a window in their incoming order, then the others in
\* theirs.
StablePartition(list) ==
    LET HasWindow(x) == IsSome(x.window)
        HasNone(x) == IsNone(x.window)
    IN  SelectSeq(list, HasWindow) \o SelectSeq(list, HasNone)

\* The first n elements, or all of them.
FirstN(list, n) == [k \in 1..(IF Len(list) < n THEN Len(list) ELSE n) |-> list[k]]

\* The lists the backend answers with, short and long.
AnyLists == BackendLists \cup LongLists

\* C24: an applied Update(list), any but the empty one in switcher mode,
\* leaves launcher_items equal to the first 10 elements of the stable
\* partition of list, whatever Search it answers and whatever the results
\* were before.
C24_UpdateExact ==
    Running =>
        \A r \in inflight : \A list \in AnyLists :
            (r.name = "Search" /\ ~(alt_tab /\ Len(list) = 0)) =>
                LET s == LongUpdateStep(r, list)
                IN  /\ ~s.panicked
                    /\ s.launcher_items = FirstN(StablePartition(list), MaxResults)

\* Results are on screen and a Search is outstanding whose answer, a long
\* list, is cut, with its last element, a window, moved to the front.
C24_Witness ==
    /\ OnSurface /\ Len(launcher_items) > 0
    /\ \E r \in inflight : \E list \in LongLists :
          /\ r.name = "Search"
          /\ LongUpdateStep(r, list).launcher_items[3].id = MaxUpdate
          /\ Len(LongUpdateStep(r, list).launcher_items) = MaxResults

\* The step cleared the menu exactly if it returned destroy_popup.
C25Paired(r) == (IsSome(menu) /\ IsNone(r.menu)) <=> Issued(r, "destroy_popup")

\* Choosing an option sends ActivateContext for the menu's result and that
\* option and closes the menu.
C25Selects ==
    PressMenuButtonOn =>
        \A k \in MenuOptions :
            LET r == PressMenuButtonStep(k)
            IN  /\ RequestsNamed(r, "ActivateContext")
                      = <<Entry("request", "ActivateContext", <<menu[1][1], menu[1][2][k]>>)>>
                /\ IsNone(r.menu)
                /\ Issued(r, "destroy_popup")

\* Context(i) with a menu open closes it and asks the backend nothing.
C25Toggles ==
    (Running /\ IsSome(menu)) =>
        \A i \in 0..MaxIndex :
            LET r == RightClickStep(i)
            IN  /\ RequestsNamed(r, "Context") = <<>>
                /\ IsNone(r.menu)
                /\ Issued(r, "destroy_popup")

\* C25: a step clears the context menu exactly if it returns destroy_popup;
\* choosing an option also sends ActivateContext(result id, option id), and
\* a Context(i) that closes the menu sends no Context request.
C25_ClosePaired == EveryStep(C25Paired) /\ C25Selects /\ C25Toggles

\* The menu is open over a Visible launcher, so that an option, a second
\* right click, Escape or the toggle can close it.
C25_Witness ==
    /\ PressMenuButtonOn /\ RightClickOn /\ MenuOptions # {}
    /\ surface_state = "Visible"
    /\ Issued(SignalActivateStep, "destroy_popup")

\* The step sent nothing to the backend.
NoRequest(r) == \A k \in DOMAIN r.log : r.log[k].kind # "request"

\* C26: an Update applied with an empty queue changes launcher_items and,
\* from WaitingToBeShown, surface_state, and nothing else: focused,
\* input_value, alt_tab, menu and cursor_position keep their values and no
\* request is sent.
C26_UpdateFrame ==
    (Running /\ queue = <<>>) =>
        \A r \in inflight : \A list \in BackendLists :
            (r.name = "Search" /\ ~(alt_tab /\ Len(list) = 0)) =>
                LET s == UpdateStep(r, list)
                IN  /\ NoRequest(s)
                    /\ s.surface_state = IF surface_state = "WaitingToBeShown"
                                         THEN "Visible" ELSE surface_state
                    /\ [s EXCEPT !.log = <<>>, !.inflight = inflight,
                                 !.launcher_items = launcher_items,
                                 !.surface_state = surface_state] = Self

\* The focus is on the second of two results and a Search is outstanding:
\* a shorter answer leaves the focus where it is.
C26_Witness ==
    /\ OnSurface /\ queue = <<>> /\ focused = 1 /\ Len(launcher_items) = 2
    /\ \E r \in inflight : \E list \in BackendLists :
          /\ r.name = "Search" /\ Len(list) = 1
          /\ UpdateStep(r, list).focused = 1

\* An Update that drains the queue installs a list that is not empty.
C27Drained(r) ==
    (queue # <<>> /\ AppliesUpdate(r)) => (Len(r.launcher_items) > 0 /\ ~r.panicked)

\* C27: the queue holds at most one message, a cycle message, and only in
\* switcher mode; so the queue is drained only over results that are not
\* empty.
C27_QueueShape ==
    /\ Len(queue) <= 1
    /\ \A k \in DOMAIN queue : queue[k].name \in CycleNames
    /\ queue # <<>> => alt_tab
    /\ Running =>
          \A r \in inflight : \A list \in BackendLists :
              r.name = "Search" => C27Drained(UpdateStep(r, list))

\* A cycle message is queued and a second cycle signal can come before the
\* Update: with results on screen it moves the focus and queues nothing.
C27_Witness ==
    /\ Running /\ Len(queue) = 1 /\ Len(launcher_items) > 0
    /\ SignalActivateActionStep("AltTab").queue = queue
    /\ \E r \in inflight : r.name = "Search"

\* The commands of one name a step returned.
CommandsNamed(r, c) ==
    LET IsNamed(e) == e.kind = "command" /\ e.name = c
    IN  SelectSeq(r.log, IsNamed)

C28Alternates(r) ==
    /\ Len(CommandsNamed(r, "get_layer_surface")) <= 1
    /\ Len(CommandsNamed(r, "destroy_layer_surface")) <= 1
    /\ Issued(r, "get_layer_surface") =>
          /\ surface_state = "WaitingToBeShown" /\ r.surface_state = "Visible"
          /\ ~window_open
          /\ ~Issued(r, "destroy_layer_surface")
    /\ Issued(r, "destroy_layer_surface") =>
          /\ surface_state = "Visible" /\ r.surface_state = "Hidden"
          /\ window_open

\* C28: get_layer_surface is returned only on the step from WaitingToBeShown
\* to Visible and destroy_layer_surface only on a step from Visible to
\* Hidden, one at a time and in turns starting with a create: the surface
\* is never created while it exists nor destroyed while it does not, and it
\* exists exactly when surface_state is Visible.
C28_SurfaceAlternates ==
    /\ window_open <=> surface_state = "Visible"
    /\ EveryStep(C28Alternates)

\* The surface exists and the toggle is about to destroy it.
C28_Witness ==
    /\ window_open /\ surface_state = "Visible" /\ Running
    /\ Issued(SignalActivateStep, "destroy_layer_surface")

\* C29: switcher mode is on only while the surface is WaitingToBeShown or
\* Visible, never while it is Hidden.
C29_SwitcherNotHidden == alt_tab => surface_state \in {"WaitingToBeShown", "Visible"}

\* Switcher mode is on and a hide is about to turn it off.
C29_Witness ==
    /\ Running /\ alt_tab /\ surface_state = "WaitingToBeShown"
    /\ ~SignalActivateStep.alt_tab /\ SignalActivateStep.surface_state = "Hidden"

C30Parented(r) ==
    (Issued(r, "get_popup") \/ (IsSome(r.menu) /\ r.menu # menu)) =>
        (surface_state = "Visible" /\ window_open)

\* C30: get_popup is returned, and the context menu set, only while the
\* main surface exists (surface_state Visible): a Context response handled
\* while Hidden or WaitingToBeShown sets no menu and creates no popup.
C30_PopupHasParent == EveryStep(C30Parented)

====
